---- MODULE Spec2Model ----
(***************************************************************************)
(* A model of mcp_baostock.py: the Baostock session lifecycle, the two     *)
(* identifier translators and the fifteen MCP tool handlers.               *)
(*                                                                         *)
(* Python strings are sequences of one-character strings, so that prefix   *)
(* tests, slicing and splitting are computed and not assumed.  The vendor  *)
(* SDK (baostock) is the environment: what each query returns is chosen    *)
(* nondeterministically from bounded sets.                                 *)
(***************************************************************************)
EXTENDS Integers, Sequences, FiniteSets, TLC

VARIABLES
    pc,        \* position of the process: "import", "aborted", "ready", "serving", "finally", "exited"
    session,   \* the Baostock session: "none", "open", "closed"
    logins,    \* number of successful bs.login() calls
    logouts,   \* number of bs.logout() calls made
    exitCause, \* why the process ended: "none", "login", "normal", "serve_error"
    op,        \* name of the last tool handler invoked ("none" before the first)
    args,      \* its arguments
    vend,      \* what the vendor SDK answered during that invocation
    calls,     \* the vendor queries that invocation issued, in order
    ret,       \* what the handler returned: [shape, items]
    raised,    \* TRUE iff that invocation ended by raising to its caller
    prior,     \* history: how the invocation answered before this one ended: "none", "ok", "error"
    tin,       \* translator runs: the string the run started from
    chain      \* translator runs: the applications made so far, [f, in, out]

vars == <<pc, session, logins, logouts, exitCause, op, args, vend, calls, ret, raised, prior, tin, chain>>

procVars == <<pc, session, logins, logouts, exitCause>>
toolVars == <<op, args, vend, calls, ret, raised, prior>>
idVars == <<tin, chain>>

(***************************************************************************)
(* Bounds                                                                  *)
(***************************************************************************)
MaxSuffix == 3     \* translator inputs: characters after the chosen prefix
MaxChain == 3      \* translator runs: applications per run

(***************************************************************************)
(* Strings                                                                 *)
(***************************************************************************)
StartsWith(s, p) == Len(s) >= Len(p) /\ SubSeq(s, 1, Len(p)) = p

\* s[n:] of Python, n >= 0
SliceFrom(s, n) == SubSeq(s, n + 1, Len(s))

HasChar(s, ch) == \E i \in 1..Len(s) : s[i] = ch

FirstIndex(s, ch) == CHOOSE i \in 1..Len(s) : s[i] = ch /\ \A j \in 1..(i - 1) : s[j] # ch

\* s.split(ch, 1) of Python: one part without ch in s, else the text before the
\* first ch and everything after it
Split1(s, ch) ==
    IF HasChar(s, ch)
    THEN <<SubSeq(s, 1, FirstIndex(s, ch) - 1), SubSeq(s, FirstIndex(s, ch) + 1, Len(s))>>
    ELSE <<s>>

SH_DOT == <<"s", "h", ".">>
SZ_DOT == <<"s", "z", ".">>
SSE == <<"S", "S", "E">>
SZSE == <<"S", "Z", "S", "E">>
COLON == ":"

(***************************************************************************)
(* Python values.  None, floats and integers are tagged records (a float   *)
(* is its integer part and its fractional digits); an outcome is a         *)
(* returned value or an exception.                                         *)
(***************************************************************************)
None == [none |-> TRUE]
PyInt(n) == [int |-> n]
PyFloat(whole, frac) == [float |-> whole, frac |-> frac]

Ret(v) == [t |-> "ret", v |-> v]
Exc(text) == [t |-> "exc", v |-> text]

IndexError == "list index out of range"
FloatError == "could not convert string to float"
IntError == "invalid literal for int() with base 10"
KeyError == "'code_name'"
CallError == "vendor call failed"
NextError == "cursor advance failed"
RowError == "row fetch failed"

DigitChars == {"0", "1", "2", "3", "4", "5", "6", "7", "8", "9"}

DigitVal(ch) ==
    CASE ch = "0" -> 0 [] ch = "1" -> 1 [] ch = "2" -> 2 [] ch = "3" -> 3 [] ch = "4" -> 4
      [] ch = "5" -> 5 [] ch = "6" -> 6 [] ch = "7" -> 7 [] ch = "8" -> 8 [] ch = "9" -> 9

IsDigits(s) == \A i \in 1..Len(s) : s[i] \in DigitChars

RECURSIVE NatOf(_)
NatOf(ds) == IF ds = <<>> THEN 0 ELSE 10 * NatOf(SubSeq(ds, 1, Len(ds) - 1)) + DigitVal(ds[Len(ds)])

RECURSIVE StripZeros(_)
StripZeros(ds) ==
    IF ds # <<>> /\ ds[Len(ds)] = "0" THEN StripZeros(SubSeq(ds, 1, Len(ds) - 1)) ELSE ds

\* the decimal texts float() accepts among strings of digits and dots
IsFloatText(s) ==
    LET parts == Split1(s, ".")
    IN  /\ \A i \in 1..Len(parts) : IsDigits(parts[i])
        /\ \E i \in 1..Len(parts) : parts[i] # <<>>

\* float(cell)
ParseFloat(cell) ==
    IF IsFloatText(cell)
    THEN LET parts == Split1(cell, ".")
         IN  Ret(PyFloat(NatOf(parts[1]), IF Len(parts) = 2 THEN StripZeros(parts[2]) ELSE <<>>))
    ELSE Exc(FloatError)

\* int(float(cell)): truncation
ParseIntOfFloat(cell) ==
    IF ParseFloat(cell).t = "exc" THEN ParseFloat(cell) ELSE Ret(PyInt(ParseFloat(cell).v.float))

\* int(cell)
ParseInt(cell) ==
    IF cell # <<>> /\ IsDigits(cell) THEN Ret(PyInt(NatOf(cell))) ELSE Exc(IntError)

(***************************************************************************)
(* Identifier translators                                                  *)
(***************************************************************************)
bs_code_to_internal_swapped(bs_code) ==
    IF StartsWith(bs_code, SH_DOT) THEN SZSE \o <<COLON>> \o SliceFrom(bs_code, 3)
    ELSE IF StartsWith(bs_code, SZ_DOT) THEN SSE \o <<COLON>> \o SliceFrom(bs_code, 3)
    ELSE bs_code

bs_code_to_internal(bs_code) ==
    IF StartsWith(bs_code, SH_DOT) THEN SSE \o <<COLON>> \o SliceFrom(bs_code, 3)
    ELSE IF StartsWith(bs_code, SZ_DOT) THEN SZSE \o <<COLON>> \o SliceFrom(bs_code, 3)
    ELSE bs_code

\* the slip of splitting at every colon and keeping only the second part
internal_to_bs_code_split_all(ticker) ==
    IF HasChar(ticker, COLON)
    THEN LET exchange == Split1(ticker, COLON)[1]
             symbol == Split1(Split1(ticker, COLON)[2], COLON)[1]
         IN  IF exchange = SSE THEN SH_DOT \o symbol
             ELSE IF exchange = SZSE THEN SZ_DOT \o symbol
             ELSE ticker
    ELSE ticker

internal_to_bs_code(ticker) ==
    IF HasChar(ticker, COLON)
    THEN LET exchange == Split1(ticker, COLON)[1]
             symbol == Split1(ticker, COLON)[2]
         IN  IF exchange = SSE THEN SH_DOT \o symbol
             ELSE IF exchange = SZSE THEN SZ_DOT \o symbol
             ELSE ticker
    ELSE ticker

(***************************************************************************)
(* The vendor SDK.  An answer is what one bs.query_*() call does: it       *)
(* raises, or returns a result object rs with error_code, error_msg,       *)
(* fields and a cursor over rows.  After the last row the cursor is        *)
(* exhausted ("none"), or next() raises, or next() succeeds and            *)
(* get_row_data() raises, or next() fails and sets a non-"0" error_code    *)
(* ("status_flips").  rows are the rows the cursor delivers; undelivered   *)
(* are the rows of the response that a failing next() never delivers.      *)
(***************************************************************************)
MaxRows == 2       \* rows a vendor answer may carry

Faults == {"none", "next_raises", "row_raises", "status_flips"}

Answer(call, code, msg, fields, rows, fault) ==
    [call |-> call, error_code |-> code, error_msg |-> msg, fields |-> fields,
     rows |-> rows, fault |-> fault, undelivered |-> <<>>]

\* rs.next() fails part-way: the rows in rest are never delivered
CutShort(rs, rest) == [rs EXCEPT !.fault = "status_flips", !.undelivered = rest]

\* every row of the vendor's response, in cursor order
Response(rs) == rs.rows \o rs.undelivered

EMPTY == <<>>
SH6 == <<"s", "h", ".", "6">>
SZ1 == <<"s", "z", ".", "1">>
BJ4 == <<"b", "j", ".", "4">>
T127 == <<"1", "2", ".", "7">>
T1 == <<"1">>
TBAD == <<"x">>

DigitText(i) == <<CASE i = 1 -> "1" [] i = 2 -> "2" [] i = 3 -> "3" [] i = 4 -> "4" [] i = 5 -> "5"
                    [] i = 6 -> "6" [] i = 7 -> "7" [] i = 8 -> "8" [] OTHER -> "9">>

\* a row of n cells: the code in (0-based) column codeCol, fill in the others
FilledRow(n, codeCol, code, fill) == [i \in 1..n |-> IF i = codeCol + 1 THEN code ELSE fill]

\* rows of n cells the vendor may deliver: numeric text, empty cells, a "1"
\* everywhere, text that is no number, a different number in every column,
\* and a row that is too short
RowsOf(n, codeCol) ==
    { FilledRow(n, codeCol, SH6, T127), FilledRow(n, codeCol, SZ1, EMPTY),
      FilledRow(n, codeCol, BJ4, T1), FilledRow(n, codeCol, SH6, TBAD),
      [i \in 1..n |-> IF i = codeCol + 1 THEN SZ1 ELSE DigitText(i)],
      <<SH6>> }

SeqsUpTo(S, n) == UNION { [1..k -> S] : k \in 0..n }

VendorMsgs == {"network error", "not logged in"}

\* the answers to one query whose rows are drawn from rowSet
AnswersOver(fields, rowSet, maxRows) ==
    { Answer("raises", "0", "", fields, <<>>, "none") }
    \cup { Answer("returns", "10001", m, fields, rows, "none") :
             m \in VendorMsgs, rows \in SeqsUpTo(rowSet, 1) }
    \cup { Answer("returns", "0", "success", fields, rows, f) :
             rows \in SeqsUpTo(rowSet, maxRows), f \in Faults }
    \cup { CutShort(Answer("returns", "0", "success", fields, rows, "none"), <<row>>) :
             rows \in SeqsUpTo(rowSet, maxRows), row \in rowSet }

\* while (rs.error_code == '0') and rs.next(): data_list.append(rs.get_row_data())
RECURSIVE DrainFrom(_, _, _)
DrainFrom(rs, i, data_list) ==
    IF rs.error_code # "0" THEN Ret(data_list)
    ELSE IF i < Len(rs.rows) THEN DrainFrom(rs, i + 1, Append(data_list, rs.rows[i + 1]))
    ELSE CASE rs.fault = "next_raises" -> Exc(NextError)
           [] rs.fault = "row_raises" -> Exc(RowError)
           [] OTHER -> Ret(data_list)

Drain(rs) == DrainFrom(rs, 0, <<>>)

(***************************************************************************)
(* Results                                                                 *)
(***************************************************************************)
ListOf(items) == [shape |-> "list", items |-> items]
ObjectOf(record) == [shape |-> "object", items |-> <<record>>]
NoResult == [shape |-> "none", items |-> <<>>]

ErrorRecord(message) == [error |-> message]

\* the message of a failed query with the vendor's text left out
QueryFailed_no_msg(msg) == <<"query failed: ">>

\* f"query failed: {rs.error_msg}" (the source's text is Chinese)
QueryFailed(msg) == <<"query failed: ", msg>>

\* the handler without its try/except
ExceptList_missing(outcome) == outcome

\* except Exception as e: return [{"error": str(e)}]
ExceptList(outcome) ==
    IF outcome.t = "exc" THEN Ret(ListOf(<<ErrorRecord(<<outcome.v>>)>>)) ELSE outcome

\* except Exception as e: return {"error": str(e)}
ExceptObject(outcome) ==
    IF outcome.t = "exc" THEN Ret(ObjectOf(ErrorRecord(<<outcome.v>>))) ELSE outcome

(***************************************************************************)
(* Field mapping.  A record is described by its fields in the order the    *)
(* dictionary display evaluates them: [name, col, kind], col the 0-based   *)
(* column of the row.  Kinds: "str" row[c]; "float" float(row[c]) if       *)
(* row[c] else None; "int" int(float(row[c])) if row[c] else None;         *)
(* "is1" int(row[c]) == 1; "ticker" bs_code_to_internal(row[c]);           *)
(* "param" the handler's own parameter.                                    *)
(***************************************************************************)
Field(name, col, kind) == [name |-> name, col |-> col, kind |-> kind]

EvalField(f, row, param) ==
    IF f.kind = "param" THEN Ret(param)
    ELSE IF f.col >= Len(row) THEN Exc(IndexError)
    ELSE LET cell == row[f.col + 1]
         IN  CASE f.kind = "str" -> Ret(cell)
               [] f.kind = "float" -> IF cell # <<>> THEN ParseFloat(cell) ELSE Ret(None)
               [] f.kind = "int" -> IF cell # <<>> THEN ParseIntOfFloat(cell) ELSE Ret(None)
               [] f.kind = "is1" ->
                    IF ParseInt(cell).t = "exc" THEN ParseInt(cell)
                    ELSE Ret(ParseInt(cell).v = PyInt(1))
               [] f.kind = "ticker" -> Ret(bs_code_to_internal(cell))

\* one dictionary display: the first field that raises ends it
BuildRecord(fields, row, param) ==
    LET bad == { i \in 1..Len(fields) : EvalField(fields[i], row, param).t = "exc" }
    IN  IF bad # {}
        THEN EvalField(fields[CHOOSE i \in bad : \A j \in bad : i <= j], row, param)
        ELSE Ret([name \in { fields[i].name : i \in 1..Len(fields) } |->
                    EvalField(fields[CHOOSE i \in 1..Len(fields) : fields[i].name = name],
                              row, param).v])

\* for row in data_list: result.append({...}); the first row that raises ends the loop
MapRows(fields, data_list, param) ==
    LET bad == { i \in 1..Len(data_list) : BuildRecord(fields, data_list[i], param).t = "exc" }
    IN  IF bad # {}
        THEN BuildRecord(fields, data_list[CHOOSE i \in bad : \A j \in bad : i <= j], param)
        ELSE Ret(ListOf([i \in 1..Len(data_list) |-> BuildRecord(fields, data_list[i], param).v]))

(***************************************************************************)
(* The tool handlers.  Each takes what the vendor answers and gives the    *)
(* handler's outcome.  The not-found messages are the source's, in         *)
(* English.                                                                *)
(***************************************************************************)
StockBasicFields ==
    <<Field("code", 0, "str"), Field("name", 1, "str"), Field("ipo_date", 2, "str"),
      Field("out_date", 3, "str"), Field("type", 4, "str"), Field("status", 5, "str"),
      Field("internal_ticker", 0, "ticker")>>

get_stock_basic(rs) ==
    ExceptList(
        IF rs.call = "raises" THEN Exc(CallError)
        ELSE IF rs.error_code # "0" THEN Ret(ListOf(<<ErrorRecord(QueryFailed(rs.error_msg))>>))
        ELSE IF Drain(rs).t = "exc" THEN Drain(rs)
        ELSE IF Drain(rs).v = <<>> THEN Ret(ListOf(<<ErrorRecord(<<"stock information not found">>)>>))
        ELSE MapRows(StockBasicFields, Drain(rs).v, None))

DailyPriceFields ==
    <<Field("date", 0, "str"), Field("code", 1, "str"), Field("open", 2, "float"),
      Field("high", 3, "float"), Field("low", 4, "float"), Field("close", 5, "float"),
      Field("volume", 6, "int"), Field("amount", 7, "float"), Field("turnover", 8, "float"),
      Field("internal_ticker", 1, "ticker")>>

get_daily_price(rs) ==
    ExceptList(
        IF rs.call = "raises" THEN Exc(CallError)
        ELSE IF rs.error_code # "0" THEN Ret(ListOf(<<ErrorRecord(QueryFailed(rs.error_msg))>>))
        ELSE IF Drain(rs).t = "exc" THEN Drain(rs)
        ELSE IF Drain(rs).v = <<>> THEN Ret(ListOf(<<ErrorRecord(<<"price data not found">>)>>))
        ELSE MapRows(DailyPriceFields, Drain(rs).v, None))

RealTimeFields ==
    <<Field("date", 0, "str"), Field("code", 1, "str"), Field("price", 5, "float"),
      Field("open", 2, "float"), Field("high", 3, "float"), Field("low", 4, "float"),
      Field("close", 5, "float"), Field("volume", 6, "int"), Field("amount", 7, "float"),
      Field("turnover", 8, "float"), Field("internal_ticker", 1, "ticker")>>

\* the first row taken for the latest one
FirstOf(data_list) == data_list[1]

\* row = data_list[-1]
LastOf(data_list) == data_list[Len(data_list)]

get_real_time_price(rs) ==
    ExceptObject(
        IF rs.call = "raises" THEN Exc(CallError)
        ELSE IF rs.error_code # "0" THEN Ret(ObjectOf(ErrorRecord(QueryFailed(rs.error_msg))))
        ELSE IF Drain(rs).t = "exc" THEN Drain(rs)
        ELSE IF Drain(rs).v = <<>> THEN Ret(ObjectOf(ErrorRecord(<<"price data not found">>)))
        ELSE IF BuildRecord(RealTimeFields, LastOf(Drain(rs).v), None).t = "exc"
             THEN BuildRecord(RealTimeFields, LastOf(Drain(rs).v), None)
        ELSE Ret(ObjectOf(BuildRecord(RealTimeFields, LastOf(Drain(rs).v), None).v)))

TradeDateFields == <<Field("calendar_date", 0, "str"), Field("is_trading_day", 1, "is1")>>

get_trade_dates(rs) ==
    ExceptList(
        IF rs.call = "raises" THEN Exc(CallError)
        ELSE IF rs.error_code # "0" THEN Ret(ListOf(<<ErrorRecord(QueryFailed(rs.error_msg))>>))
        ELSE IF Drain(rs).t = "exc" THEN Drain(rs)
        ELSE IF Drain(rs).v = <<>> THEN Ret(ListOf(<<ErrorRecord(<<"trade date data not found">>)>>))
        ELSE MapRows(TradeDateFields, Drain(rs).v, None))

DividendFields ==
    <<Field("code", 0, "str"), Field("divid_pre_tax", 1, "float"),
      Field("divid_after_tax", 2, "float"), Field("record_date", 3, "str"),
      Field("ex_dividend_date", 4, "str"), Field("dividend_date", 5, "str"),
      Field("dividend_year", 6, "str"), Field("internal_ticker", 0, "ticker")>>

get_dividend_data(rs) ==
    ExceptList(
        IF rs.call = "raises" THEN Exc(CallError)
        ELSE IF rs.error_code # "0" THEN Ret(ListOf(<<ErrorRecord(QueryFailed(rs.error_msg))>>))
        ELSE IF Drain(rs).t = "exc" THEN Drain(rs)
        ELSE IF Drain(rs).v = <<>> THEN Ret(ListOf(<<ErrorRecord(<<"dividend data not found">>)>>))
        ELSE MapRows(DividendFields, Drain(rs).v, None))

IndustryFields ==
    <<Field("update_date", 0, "str"), Field("code", 1, "str"), Field("code_name", 2, "str"),
      Field("industry", 3, "str"), Field("industry_classification", 4, "str"),
      Field("internal_ticker", 1, "ticker")>>

get_stock_industry(rs) ==
    ExceptList(
        IF rs.call = "raises" THEN Exc(CallError)
        ELSE IF rs.error_code # "0" THEN Ret(ListOf(<<ErrorRecord(QueryFailed(rs.error_msg))>>))
        ELSE IF Drain(rs).t = "exc" THEN Drain(rs)
        ELSE IF Drain(rs).v = <<>> THEN Ret(ListOf(<<ErrorRecord(<<"industry data not found">>)>>))
        ELSE MapRows(IndustryFields, Drain(rs).v, None))

IndexDataFields ==
    <<Field("date", 0, "str"), Field("code", 1, "str"), Field("open", 2, "float"),
      Field("high", 3, "float"), Field("low", 4, "float"), Field("close", 5, "float"),
      Field("volume", 6, "int"), Field("amount", 7, "float"),
      Field("internal_ticker", 1, "ticker")>>

get_index_data(rs) ==
    ExceptList(
        IF rs.call = "raises" THEN Exc(CallError)
        ELSE IF rs.error_code # "0" THEN Ret(ListOf(<<ErrorRecord(QueryFailed(rs.error_msg))>>))
        ELSE IF Drain(rs).t = "exc" THEN Drain(rs)
        ELSE IF Drain(rs).v = <<>> THEN Ret(ListOf(<<ErrorRecord(<<"index data not found">>)>>))
        ELSE MapRows(IndexDataFields, Drain(rs).v, None))

MacroFields ==
    <<Field("stat_year", 0, "str"), Field("stat_quarter", 1, "str"),
      Field("data_value", 2, "float"), Field("data_type", 0, "param")>>

MacroTypes == {"gdp", "ppi", "cpi", "pmi"}

get_macro_data(data_type, rs) ==
    ExceptList(
        IF data_type \notin MacroTypes
        THEN Ret(ListOf(<<ErrorRecord(<<"unsupported data type: ", data_type>>)>>))
        ELSE IF rs.call = "raises" THEN Exc(CallError)
        ELSE IF rs.error_code # "0" THEN Ret(ListOf(<<ErrorRecord(QueryFailed(rs.error_msg))>>))
        ELSE IF Drain(rs).t = "exc" THEN Drain(rs)
        ELSE IF Drain(rs).v = <<>> THEN Ret(ListOf(<<ErrorRecord(<<"macro data not found">>)>>))
        ELSE MapRows(MacroFields, Drain(rs).v, data_type))

\* the vendor query get_macro_data issues
MacroCalls(data_type) ==
    CASE data_type = "gdp" -> <<"query_gdp_data">>
      [] data_type = "ppi" -> <<"query_ppi_data">>
      [] data_type = "cpi" -> <<"query_cpi_data">>
      [] data_type = "pmi" -> <<"query_pmi_data">>
      [] OTHER -> <<>>

ConstituentFields ==
    <<Field("update_date", 0, "str"), Field("code", 1, "str"), Field("code_name", 2, "str"),
      Field("weight", 3, "float"), Field("index_code", 0, "param"),
      Field("internal_ticker", 1, "ticker")>>

IndexCodes == {"hs300", "zz500", "sz50"}

get_index_constituents(index_code, rs) ==
    ExceptList(
        IF index_code \notin IndexCodes
        THEN Ret(ListOf(<<ErrorRecord(<<"unsupported index: ", index_code>>)>>))
        ELSE IF rs.call = "raises" THEN Exc(CallError)
        ELSE IF rs.error_code # "0" THEN Ret(ListOf(<<ErrorRecord(QueryFailed(rs.error_msg))>>))
        ELSE IF Drain(rs).t = "exc" THEN Drain(rs)
        ELSE IF Drain(rs).v = <<>> THEN Ret(ListOf(<<ErrorRecord(<<"constituent data not found">>)>>))
        ELSE MapRows(ConstituentFields, Drain(rs).v, index_code))

\* the vendor query get_index_constituents issues
ConstituentCalls(index_code) ==
    CASE index_code = "hs300" -> <<"query_hs300_stocks">>
      [] index_code = "zz500" -> <<"query_zz500_stocks">>
      [] index_code = "sz50" -> <<"query_sz50_stocks">>
      [] OTHER -> <<>>

AdjustFactorFields ==
    <<Field("date", 0, "str"), Field("code", 1, "str"), Field("fore_adjust_factor", 2, "float"),
      Field("back_adjust_factor", 3, "float"), Field("adjust_factor", 4, "float"),
      Field("internal_ticker", 1, "ticker")>>

get_adjust_factor(rs) ==
    ExceptList(
        IF rs.call = "raises" THEN Exc(CallError)
        ELSE IF rs.error_code # "0" THEN Ret(ListOf(<<ErrorRecord(QueryFailed(rs.error_msg))>>))
        ELSE IF Drain(rs).t = "exc" THEN Drain(rs)
        ELSE IF Drain(rs).v = <<>> THEN Ret(ListOf(<<ErrorRecord(<<"adjust factor data not found">>)>>))
        ELSE MapRows(AdjustFactorFields, Drain(rs).v, None))

PerformanceFields ==
    <<Field("code", 0, "str"), Field("ann_date", 1, "str"), Field("report_date", 2, "str"),
      Field("eps", 3, "float"), Field("roe", 4, "float"), Field("net_profit", 5, "float"),
      Field("revenue", 6, "float"), Field("internal_ticker", 0, "ticker")>>

get_performance_express_report(rs) ==
    ExceptList(
        IF rs.call = "raises" THEN Exc(CallError)
        ELSE IF rs.error_code # "0" THEN Ret(ListOf(<<ErrorRecord(QueryFailed(rs.error_msg))>>))
        ELSE IF Drain(rs).t = "exc" THEN Drain(rs)
        ELSE IF Drain(rs).v = <<>> THEN Ret(ListOf(<<ErrorRecord(<<"performance express data not found">>)>>))
        ELSE MapRows(PerformanceFields, Drain(rs).v, None))

ForecastFields ==
    <<Field("code", 0, "str"), Field("ann_date", 1, "str"), Field("forecast_type", 2, "str"),
      Field("forecast_content", 3, "str"), Field("profit_min", 4, "float"),
      Field("profit_max", 5, "float"), Field("last_year_profit", 6, "float"),
      Field("forecast_date", 7, "str"), Field("internal_ticker", 0, "ticker")>>

\* get_forecast_report answering an empty cursor with an empty list
get_forecast_report_empty_ok(rs) ==
    ExceptList(
        IF rs.call = "raises" THEN Exc(CallError)
        ELSE IF rs.error_code # "0" THEN Ret(ListOf(<<ErrorRecord(QueryFailed(rs.error_msg))>>))
        ELSE IF Drain(rs).t = "exc" THEN Drain(rs)
        ELSE MapRows(ForecastFields, Drain(rs).v, None))

get_forecast_report(rs) ==
    ExceptList(
        IF rs.call = "raises" THEN Exc(CallError)
        ELSE IF rs.error_code # "0" THEN Ret(ListOf(<<ErrorRecord(QueryFailed(rs.error_msg))>>))
        ELSE IF Drain(rs).t = "exc" THEN Drain(rs)
        ELSE IF Drain(rs).v = <<>> THEN Ret(ListOf(<<ErrorRecord(<<"forecast data not found">>)>>))
        ELSE MapRows(ForecastFields, Drain(rs).v, None))

(***************************************************************************)
(* search_stocks                                                           *)
(***************************************************************************)
LowerChar(ch) ==
    CASE ch = "B" -> "b" [] ch = "S" -> "s" [] ch = "H" -> "h" [] ch = "Z" -> "z"
      [] ch = "A" -> "a" [] OTHER -> ch

Lower(str) == [i \in 1..Len(str) |-> LowerChar(str[i])]

\* keyword occurs in str; the keywords drawn hold letters and digits only, for
\* which the regular expression str.contains() builds matches the text itself
Contains(str, keyword) ==
    \E i \in 0..(Len(str) - Len(keyword)) : SubSeq(str, i + 1, i + Len(keyword)) = keyword

ContainsNoCase(str, keyword) == Contains(Lower(str), Lower(keyword))

\* seq[:n] of Python, also DataFrame.head(n): a negative n drops from the end
PyHead(seq, n) ==
    IF n >= 0 THEN SubSeq(seq, 1, IF n < Len(seq) THEN n ELSE Len(seq))
    ELSE SubSeq(seq, 1, IF Len(seq) + n > 0 THEN Len(seq) + n ELSE 0)

HasField(fields, name) == \E i \in 1..Len(fields) : fields[i] = name

\* df[name] of a row
Column(fields, row, name) == row[CHOOSE i \in 1..Len(fields) : fields[i] = name]

\* df[mask].head(limit)
SearchHits(fields, data_list, keyword, limit) ==
    LET Hit(row) == \/ ContainsNoCase(Column(fields, row, "code_name"), keyword)
                    \/ ContainsNoCase(Column(fields, row, "code"), keyword)
    IN  PyHead(SelectSeq(data_list, Hit), limit)

SearchRecord(fields, row) ==
    [code |-> Column(fields, row, "code"), name |-> Column(fields, row, "code_name"),
     internal_ticker |-> bs_code_to_internal(Column(fields, row, "code"))]

search_stocks(keyword, limit, rs) ==
    ExceptList(
        IF rs.call = "raises" THEN Exc(CallError)
        ELSE IF rs.error_code # "0" THEN Ret(ListOf(<<ErrorRecord(QueryFailed(rs.error_msg))>>))
        ELSE IF Drain(rs).t = "exc" THEN Drain(rs)
        ELSE IF Drain(rs).v = <<>> THEN Ret(ListOf(<<ErrorRecord(<<"stock data not found">>)>>))
        ELSE IF ~HasField(rs.fields, "code_name") \/ ~HasField(rs.fields, "code") THEN Exc(KeyError)
        ELSE Ret(ListOf([i \in 1..Len(SearchHits(rs.fields, Drain(rs).v, keyword, limit)) |->
                SearchRecord(rs.fields, SearchHits(rs.fields, Drain(rs).v, keyword, limit)[i])])))

(***************************************************************************)
(* get_financial_data                                                      *)
(***************************************************************************)
\* the default year and quarter, stepping back on every day up to the 15th
ResolveQuarter_through_15(year, quarter, now) ==
    IF year = None \/ quarter = None
    THEN IF now.month % 3 = 1 /\ now.day <= 15
         THEN IF (now.month - 1) \div 3 + 1 - 1 = 0
              THEN [year |-> PyInt(now.year - 1), quarter |-> PyInt(4)]
              ELSE [year |-> PyInt(now.year), quarter |-> PyInt((now.month - 1) \div 3 + 1 - 1)]
         ELSE [year |-> PyInt(now.year), quarter |-> PyInt((now.month - 1) \div 3 + 1)]
    ELSE [year |-> year, quarter |-> quarter]

\* the default year and quarter
ResolveQuarter(year, quarter, now) ==
    IF year = None \/ quarter = None
    THEN IF now.month % 3 = 1 /\ now.day < 15
         THEN IF (now.month - 1) \div 3 + 1 - 1 = 0
              THEN [year |-> PyInt(now.year - 1), quarter |-> PyInt(4)]
              ELSE [year |-> PyInt(now.year), quarter |-> PyInt((now.month - 1) \div 3 + 1 - 1)]
         ELSE [year |-> PyInt(now.year), quarter |-> PyInt((now.month - 1) \div 3 + 1)]
    ELSE [year |-> year, quarter |-> quarter]

\* df.iloc[0].to_dict() over columns=rs.fields
RowDict(fields, row) ==
    [name \in { fields[i] : i \in 1..Len(fields) } |-> Column(fields, row, name)]

\* rs_to_dict reporting a failed sub-query as an exception
rs_to_dict_strict(rs) ==
    IF rs.error_code # "0" THEN Exc(rs.error_msg)
    ELSE IF Drain(rs).t = "exc" THEN Drain(rs)
    ELSE IF Drain(rs).v = <<>> THEN Ret(None)
    ELSE Ret(RowDict(rs.fields, Drain(rs).v[1]))

rs_to_dict(rs) ==
    IF rs.error_code # "0" THEN Ret(None)
    ELSE IF Drain(rs).t = "exc" THEN Drain(rs)
    ELSE IF Drain(rs).v = <<>> THEN Ret(None)
    ELSE Ret(RowDict(rs.fields, Drain(rs).v[1]))

FinancialQueries ==
    <<"query_profit_data", "query_operation_data", "query_growth_data",
      "query_balance_data", "query_cash_flow_data">>

\* the sub-queries issued: all five, or those up to the first call that raises
FinancialCalls(answers) ==
    LET raising == { i \in 1..5 : answers[i].call = "raises" }
    IN  IF raising = {} THEN FinancialQueries
        ELSE SubSeq(FinancialQueries, 1, CHOOSE i \in raising : \A j \in raising : i <= j)

get_financial_data(bs_code, year, quarter, now, answers) ==
    ExceptObject(
        IF \E i \in 1..5 : answers[i].call = "raises" THEN Exc(CallError)
        ELSE LET bad == { i \in 1..5 : rs_to_dict(answers[i]).t = "exc" }
             IN  IF bad # {}
                 THEN rs_to_dict(answers[CHOOSE i \in bad : \A j \in bad : i <= j])
                 ELSE Ret(ObjectOf(
                        [year |-> ResolveQuarter(year, quarter, now).year,
                         quarter |-> ResolveQuarter(year, quarter, now).quarter,
                         code |-> bs_code,
                         internal_ticker |-> bs_code_to_internal(bs_code),
                         profitability |-> rs_to_dict(answers[1]).v,
                         operation |-> rs_to_dict(answers[2]).v,
                         growth |-> rs_to_dict(answers[3]).v,
                         balance |-> rs_to_dict(answers[4]).v,
                         cash_flow |-> rs_to_dict(answers[5]).v])))

(***************************************************************************)
(* get_all_stocks_daily_price                                              *)
(***************************************************************************)
\* one turn of the loop over stock_codes: the record appended, or "skip"
PriceRecord(price_rs) ==
    IF price_rs.call = "raises" THEN "skip"
    ELSE IF price_rs.error_code # "0" THEN "skip"
    ELSE IF Drain(price_rs).t = "exc" THEN "skip"
    ELSE IF Drain(price_rs).v = <<>> THEN "skip"
    ELSE IF BuildRecord(DailyPriceFields, Drain(price_rs).v[1], None).t = "exc" THEN "skip"
    ELSE "record"

\* the symbols listed: row[0] of every row drained
StockCodes(rs) ==
    IF \E i \in 1..Len(rs.rows) : rs.rows[i] = <<>> THEN Exc(IndexError)
    ELSE IF Drain(rs).t = "exc" THEN Drain(rs)
    ELSE Ret([i \in 1..Len(Drain(rs).v) |-> Drain(rs).v[i][1]])

\* stock_codes[:limit]; 0 when the listing fails
VisitedCount(limit, rs) ==
    IF rs.call = "raises" \/ rs.error_code # "0" \/ StockCodes(rs).t = "exc" THEN 0
    ELSE Len(PyHead(StockCodes(rs).v, limit))

\* the loop ending at the first symbol whose query fails
BulkResult_abort_on_failure(prices) ==
    LET bad == { i \in 1..Len(prices) : PriceRecord(prices[i]) = "skip" }
        n == IF bad = {} THEN Len(prices) ELSE (CHOOSE i \in bad : \A j \in bad : i <= j) - 1
    IN  [i \in 1..n |-> BuildRecord(DailyPriceFields, Drain(prices[i]).v[1], None).v]

\* result after the loop: the records of the symbols not skipped, in order
BulkResult(prices) ==
    LET Kept(i) == PriceRecord(prices[i]) = "record"
        kept == SelectSeq([i \in 1..Len(prices) |-> i], Kept)
    IN  [k \in 1..Len(kept) |-> BuildRecord(DailyPriceFields, Drain(prices[kept[k]]).v[1], None).v]

BulkCalls(limit, rs) ==
    <<"query_all_stock">> \o [i \in 1..VisitedCount(limit, rs) |-> "query_history_k_data_plus"]

get_all_stocks_daily_price(limit, rs, prices) ==
    ExceptList(
        IF rs.call = "raises" THEN Exc(CallError)
        ELSE IF rs.error_code # "0"
             THEN Ret(ListOf(<<ErrorRecord(<<"query stock list failed: ", rs.error_msg>>)>>))
        ELSE IF StockCodes(rs).t = "exc" THEN StockCodes(rs)
        ELSE IF StockCodes(rs).v = <<>> THEN Ret(ListOf(<<ErrorRecord(<<"stock list not found">>)>>))
        ELSE IF BulkResult(SubSeq(prices, 1, VisitedCount(limit, rs))) = <<>>
             THEN Ret(ListOf(<<ErrorRecord(<<"daily K-line data not found">>)>>))
        ELSE Ret(ListOf(BulkResult(SubSeq(prices, 1, VisitedCount(limit, rs))))))

NoTool ==
    /\ op = "none" /\ args = <<>> /\ vend = <<>> /\ calls = <<>>
    /\ ret = [shape |-> "none", items |-> <<>>] /\ raised = FALSE
    /\ prior = "none"

NoProc ==
    /\ pc = "import" /\ session = "none" /\ logins = 0 /\ logouts = 0 /\ exitCause = "none"

(***************************************************************************)
(* The process: the module body logs in, __main__ serves, and the finally  *)
(* clause logs out.                                                        *)
(***************************************************************************)
\* result = bs.login(); a result other than '0' raises ValueError
Login ==
    /\ pc = "import"
    /\ \E result \in {"0", "10001", "raises"} :
            IF result = "0"
            THEN /\ session' = "open"
                 /\ logins' = logins + 1
                 /\ pc' = "ready"
                 /\ exitCause' = exitCause
            ELSE /\ pc' = "aborted"
                 /\ exitCause' = "login"
                 /\ UNCHANGED <<session, logins>>
    /\ UNCHANGED <<logouts, toolVars, idVars>>

\* asyncio.run(mcp.run_streamable_http_async()): the tools become reachable
StartServer ==
    /\ pc = "ready"
    /\ pc' = "serving"
    /\ UNCHANGED <<session, logins, logouts, exitCause, toolVars, idVars>>

\* the serving loop returns or raises; control passes to the finally clause
ServeEnds ==
    /\ pc = "serving"
    /\ op = "none"
    /\ pc' = "finally"
    /\ \E cause \in {"normal", "serve_error"} : exitCause' = cause
    /\ UNCHANGED <<session, logins, logouts, toolVars, idVars>>

\* a finally clause whose logout is not wrapped in try/except
AfterLogout_unguarded(result, cause) == IF result = "raises" THEN "logout_error" ELSE cause

\* try: bs.logout() except: pass -- what the process ends with
AfterLogout(result, cause) == cause

Logout ==
    /\ pc = "finally"
    /\ \E result \in {"0", "raises"} :
            /\ session' = IF result = "0" THEN "closed" ELSE session
            /\ exitCause' = AfterLogout(result, exitCause)
    /\ logouts' = logouts + 1
    /\ pc' = "exited"
    /\ UNCHANGED <<logins, toolVars, idVars>>

(***************************************************************************)
(* Tool invocations, reachable while the server runs                       *)
(***************************************************************************)
\* one request at a time: a handler runs when no result is waiting to be sent
Idle == pc = "serving" /\ op = "none"

\* the handler's result is an error result, or the handler raised
Failed(outcome) ==
    \/ outcome.t = "exc"
    \/ (Len(outcome.v.items) = 1 /\ "error" \in DOMAIN outcome.v.items[1])

\* a handler that gives up the session when it has an error to report
Invoke_ending_session(name, a, answers, issued, outcome) ==
    /\ op' = name
    /\ args' = a
    /\ vend' = answers
    /\ calls' = issued
    /\ ret' = IF outcome.t = "ret" THEN outcome.v ELSE NoResult
    /\ raised' = (outcome.t = "exc")
    /\ session' = IF Failed(outcome) THEN "closed" ELSE session
    /\ UNCHANGED <<pc, logins, logouts, exitCause, idVars, prior>>

\* a handler runs: it reads its arguments and the vendor's answers and writes
\* nothing but its result
Invoke(name, a, answers, issued, outcome) ==
    /\ op' = name
    /\ args' = a
    /\ vend' = answers
    /\ calls' = issued
    /\ ret' = IF outcome.t = "ret" THEN outcome.v ELSE NoResult
    /\ raised' = (outcome.t = "exc")
    /\ UNCHANGED <<procVars, idVars, prior>>

\* the framework sends the handler's result; nothing of the invocation is kept
Respond ==
    /\ pc = "serving"
    /\ op # "none"
    /\ op' = "none" /\ args' = <<>> /\ vend' = <<>> /\ calls' = <<>>
    /\ ret' = NoResult /\ raised' = FALSE
    /\ prior' = IF Failed(IF raised THEN Exc("") ELSE Ret(ret)) THEN "error" ELSE "ok"
    /\ UNCHANGED <<procVars, idVars>>

GetStockBasic ==
    /\ Idle
    /\ \E rs \in AnswersOver(<<>>, RowsOf(6, 0), MaxRows) :
            Invoke("get_stock_basic", [bs_code |-> SH6], <<rs>>, <<"query_stock_basic">>, get_stock_basic(rs))

GetDailyPrice ==
    /\ Idle
    /\ \E rs \in AnswersOver(<<>>, RowsOf(9, 1), MaxRows) :
            Invoke("get_daily_price", [bs_code |-> SH6], <<rs>>, <<"query_history_k_data_plus">>, get_daily_price(rs))

GetRealTimePrice ==
    /\ Idle
    /\ \E rs \in AnswersOver(<<>>, RowsOf(9, 1), MaxRows) :
            Invoke("get_real_time_price", [bs_code |-> SH6], <<rs>>, <<"query_history_k_data_plus">>, get_real_time_price(rs))

GetTradeDates ==
    /\ Idle
    /\ \E rs \in AnswersOver(<<>>, RowsOf(2, 0), MaxRows) :
            Invoke("get_trade_dates", [start_date |-> T1], <<rs>>, <<"query_trade_dates">>, get_trade_dates(rs))

GetDividendData ==
    /\ Idle
    /\ \E rs \in AnswersOver(<<>>, RowsOf(7, 0), MaxRows) :
            Invoke("get_dividend_data", [bs_code |-> SH6], <<rs>>, <<"query_dividend_data">>, get_dividend_data(rs))

GetStockIndustry ==
    /\ Idle
    /\ \E rs \in AnswersOver(<<>>, RowsOf(5, 1), MaxRows) :
            Invoke("get_stock_industry", [bs_code |-> SH6], <<rs>>, <<"query_stock_industry">>, get_stock_industry(rs))

GetIndexData ==
    /\ Idle
    /\ \E rs \in AnswersOver(<<>>, RowsOf(8, 1), MaxRows) :
            Invoke("get_index_data", [index_code |-> SH6], <<rs>>, <<"query_history_k_data_plus">>, get_index_data(rs))

GetMacroData ==
    /\ Idle
    /\ \E data_type \in {"gdp", "ppi", "cpi", "pmi", "m2"} :
       \E rs \in AnswersOver(<<>>, RowsOf(3, 0), MaxRows) :
            Invoke("get_macro_data", [data_type |-> data_type], <<rs>>, MacroCalls(data_type),
                   get_macro_data(data_type, rs))

GetIndexConstituents ==
    /\ Idle
    /\ \E index_code \in {"hs300", "zz500", "sz50", "zz1000"} :
       \E rs \in AnswersOver(<<>>, RowsOf(4, 1), MaxRows) :
            Invoke("get_index_constituents", [index_code |-> index_code], <<rs>>,
                   ConstituentCalls(index_code), get_index_constituents(index_code, rs))

GetAdjustFactor ==
    /\ Idle
    /\ \E rs \in AnswersOver(<<>>, RowsOf(5, 1), MaxRows) :
            Invoke("get_adjust_factor", [bs_code |-> SH6], <<rs>>, <<"query_adjust_factor">>, get_adjust_factor(rs))

GetPerformanceExpressReport ==
    /\ Idle
    /\ \E rs \in AnswersOver(<<>>, RowsOf(7, 0), MaxRows) :
            Invoke("get_performance_express_report", [bs_code |-> SH6], <<rs>>, <<"query_performance_express_report">>, get_performance_express_report(rs))

GetForecastReport ==
    /\ Idle
    /\ \E rs \in AnswersOver(<<>>, RowsOf(8, 0), MaxRows) :
            Invoke("get_forecast_report", [bs_code |-> SH6], <<rs>>, <<"query_forecast_report">>, get_forecast_report(rs))

AllStockFields == <<"code", "tradeStatus", "code_name">>

NAME_BANK == <<"B", "a", "n", "k">>
NAME_A6 == <<"A", "6">>

ListingRows == { <<SH6, T1, NAME_BANK>>, <<SZ1, T1, NAME_A6>>, <<BJ4, T1, NAME_BANK>> }

Keywords == { <<>>, <<"b", "a">>, <<"S", "H">>, <<"6">>, <<"q">> }

DefaultSearchLimit == 10

SearchLimits == {-1, 0, 1, DefaultSearchLimit}

SearchAnswers ==
    AnswersOver(AllStockFields, ListingRows, MaxRows)
    \cup { Answer("returns", "0", "success", <<"code", "tradeStatus", "name">>,
                  <<<<SH6, T1, NAME_BANK>>>>, "none") }

SearchStocks ==
    /\ Idle
    /\ \E keyword \in Keywords, limit \in SearchLimits, rs \in SearchAnswers :
            Invoke("search_stocks", [keyword |-> keyword, limit |-> limit], <<rs>>,
                   <<"query_all_stock">>, search_stocks(keyword, limit, rs))

FinFields == <<"code", "pubDate", "statDate", "value">>

\* what one financial sub-query may answer
FinAnswers ==
    { Answer("raises", "0", "", FinFields, <<>>, "none"),
      Answer("returns", "10001", "network error", FinFields, <<<<SH6, T1, T1, T127>>>>, "none"),
      Answer("returns", "0", "success", FinFields, <<>>, "none"),
      Answer("returns", "0", "success", FinFields,
             <<<<SH6, T1, T1, T127>>, <<SH6, T1, T1, T1>>>>, "status_flips"),
      Answer("returns", "0", "success", FinFields, <<<<SH6, T1, T1, T127>>>>, "next_raises") }

Day(y, m, d) == [year |-> y, month |-> m, day |-> d]

DaysIn(y, m) ==
    IF m = 2 THEN (IF y % 4 = 0 THEN 29 ELSE 28)
    ELSE IF m \in {4, 6, 9, 11} THEN 30 ELSE 31

YearArgs == { None, PyInt(2023) }
QuarterArgs == { None, PyInt(2) }

GetFinancialData ==
    /\ Idle
    /\ \E yq \in { <<None, None>>, <<PyInt(2023), PyInt(2)>> } :
       \E now \in { Day(2024, 1, 10) } :
       \E answers \in [1..5 -> FinAnswers] :
            Invoke("get_financial_data",
                   [bs_code |-> SH6, year |-> yq[1], quarter |-> yq[2], now |-> now],
                   answers, FinancialCalls(answers),
                   get_financial_data(SH6, yq[1], yq[2], now, answers))

MaxSyms == 3       \* symbols the listing of a day may hold

SymbolCode(i) == (IF i % 2 = 1 THEN SH_DOT ELSE SZ_DOT) \o DigitText(i)

SymbolRows(n) == [i \in 1..n |-> <<SymbolCode(i), T1, NAME_BANK>>]

\* what query_all_stock may answer to the bulk operation
BulkListings ==
    { Answer("raises", "0", "", AllStockFields, <<>>, "none"),
      Answer("returns", "10001", "network error", AllStockFields, SymbolRows(1), "none"),
      Answer("returns", "0", "success", AllStockFields, SymbolRows(1), "next_raises"),
      Answer("returns", "0", "success", AllStockFields, <<<<>>>>, "none") }
    \cup { Answer("returns", "0", "success", AllStockFields, SymbolRows(n), "none") : n \in 0..MaxSyms }

\* what the single-day price query of one symbol may answer, by kind
PriceAnswer(code, kind) ==
    CASE kind = 1 -> Answer("raises", "0", "", <<>>, <<>>, "none")
      [] kind = 2 -> Answer("returns", "10001", "not logged in", <<>>, <<>>, "none")
      [] kind = 3 -> Answer("returns", "0", "success", <<>>, <<>>, "none")
      [] kind = 4 -> Answer("returns", "0", "success", <<>>, <<FilledRow(9, 1, code, T127)>>, "none")
      [] kind = 5 -> Answer("returns", "0", "success", <<>>,
                            <<FilledRow(9, 1, code, T1), FilledRow(9, 1, code, T127)>>, "none")
      [] kind = 6 -> Answer("returns", "0", "success", <<>>, <<FilledRow(9, 1, code, TBAD)>>, "none")

PriceKinds == 1..6

DefaultBulkLimit == 100

BulkLimits == {-1, 0, 2, DefaultBulkLimit}

\* one answer for every symbol the loop visits
PriceAnswerSeqs(n) ==
    { [i \in 1..n |-> PriceAnswer(SymbolCode(i), kinds[i])] : kinds \in [1..n -> PriceKinds] }

GetAllStocksDailyPrice ==
    /\ Idle
    /\ \E limit \in BulkLimits, rs \in BulkListings :
       \E prices \in PriceAnswerSeqs(VisitedCount(limit, rs)) :
            Invoke("get_all_stocks_daily_price", [date |-> T1, limit |-> limit],
                   <<rs>> \o prices, BulkCalls(limit, rs),
                   get_all_stocks_daily_price(limit, rs, prices))

Init ==
    /\ NoProc
    /\ NoTool
    /\ tin = <<>>
    /\ chain = <<>>

Next ==
    \/ Login
    \/ StartServer
    \/ ServeEnds
    \/ Logout
    \/ Respond
    \/ GetStockBasic
    \/ GetDailyPrice
    \/ GetRealTimePrice
    \/ SearchStocks
    \/ GetFinancialData
    \/ GetTradeDates
    \/ GetDividendData
    \/ GetStockIndustry
    \/ GetIndexData
    \/ GetMacroData
    \/ GetIndexConstituents
    \/ GetAdjustFactor
    \/ GetPerformanceExpressReport
    \/ GetForecastReport
    \/ GetAllStocksDailyPrice

Spec == Init /\ [][Next]_vars

(***************************************************************************)
(* The default quarter on every day of the calendar                        *)
(***************************************************************************)
\* every day of two years, one of them a leap year
AllDays ==
    { now \in [year : {2024, 2025}, month : 1..12, day : 1..31] :
        now.day <= DaysIn(now.year, now.month) }

QuarterAnswers ==
    { [i \in 1..5 |-> Answer("returns", "0", "success", FinFields, <<<<SH6, T1, T1, T127>>>>, "none")],
      [i \in 1..5 |-> Answer("returns", "0", "success", FinFields, <<>>, "none")] }

GetFinancialDataOn ==
    /\ Idle
    /\ \E year \in YearArgs, quarter \in QuarterArgs, now \in AllDays, answers \in QuarterAnswers :
            Invoke("get_financial_data",
                   [bs_code |-> SH6, year |-> year, quarter |-> quarter, now |-> now],
                   answers, FinancialCalls(answers),
                   get_financial_data(SH6, year, quarter, now, answers))

\* the server is up and waits for a request
InitServing ==
    /\ pc = "serving" /\ session = "open" /\ logins = 1 /\ logouts = 0 /\ exitCause = "none"
    /\ NoTool
    /\ tin = <<>>
    /\ chain = <<>>

NextQuarter == GetFinancialDataOn \/ Respond

SpecQuarter == InitServing /\ [][NextQuarter]_vars

(***************************************************************************)
(* Translator runs: a string is drawn, then the translators are applied    *)
(* to it one after the other, each to the previous result.                 *)
(***************************************************************************)
Prefixes ==
    { <<>>, SH_DOT, SZ_DOT, <<"s", "h">>, <<"b", "j", ".">>, <<"S", "H", ".">>,
      SSE \o <<COLON>>, SZSE \o <<COLON>>, SSE, <<"s", "s", "e", ":">>,
      <<"S", "S", "E", "X", ":">>, <<COLON>> }

SuffixChars == {"6", ":", "."}

StringsUpTo(chars, n) == UNION { [1..k -> chars] : k \in 0..n }

TranslatorInputs == { p \o s : p \in Prefixes, s \in StringsUpTo(SuffixChars, MaxSuffix) }

Current == IF chain = <<>> THEN tin ELSE chain[Len(chain)].out

ApplyToInternal ==
    /\ Len(chain) < MaxChain
    /\ chain' = Append(chain, [f |-> "bs_code_to_internal", in |-> Current,
                               out |-> bs_code_to_internal(Current)])
    /\ UNCHANGED <<tin, procVars, toolVars>>

ApplyToVendor ==
    /\ Len(chain) < MaxChain
    /\ chain' = Append(chain, [f |-> "internal_to_bs_code", in |-> Current,
                               out |-> internal_to_bs_code(Current)])
    /\ UNCHANGED <<tin, procVars, toolVars>>

InitId ==
    /\ tin \in TranslatorInputs
    /\ chain = <<>>
    /\ NoProc
    /\ NoTool

NextId == ApplyToInternal \/ ApplyToVendor

SpecId == InitId /\ [][NextId]_vars

Recognized(c) == StartsWith(c, SH_DOT) \/ StartsWith(c, SZ_DOT)

\* C9: a string that starts with "sh." or "sz." comes back unchanged from
\* bs_code_to_internal followed by internal_to_bs_code, a third translation
\* (to internal again) gives the first internal form again, and
\* bs_code_to_internal leaves every string without such a prefix as it is.
IdentifierRoundTrip ==
    \A i \in 1..Len(chain) :
        chain[i].f = "bs_code_to_internal" =>
            /\ ~Recognized(chain[i].in) => chain[i].out = chain[i].in
            /\ (Recognized(chain[i].in) /\ i + 1 <= Len(chain)
                    /\ chain[i + 1].f = "internal_to_bs_code")
                => /\ chain[i + 1].out = chain[i].in
                   /\ (i + 2 <= Len(chain) /\ chain[i + 2].f = "bs_code_to_internal")
                        => chain[i + 2].out = chain[i].out

\* a full round trip from a recognized code whose remainder holds a colon
RoundTripDone ==
    /\ Len(chain) = 3
    /\ Recognized(tin) /\ HasChar(tin, COLON)
    /\ chain[1].f = "bs_code_to_internal"
    /\ chain[2].f = "internal_to_bs_code"
    /\ chain[3].f = "bs_code_to_internal"
    /\ chain[2].out = tin
    /\ chain[3].out = chain[1].out

\* the reference of internal_to_bs_code, as a relation between ticker t and result o
ToVendorReference(t, o) ==
    IF \A i \in 1..Len(t) : t[i] # ":"
    THEN o = t
    ELSE \E i \in 1..Len(t) :
            /\ t[i] = ":"
            /\ \A j \in 1..(i - 1) : t[j] # ":"
            /\ LET exchange == [k \in 1..(i - 1) |-> t[k]]
                   symbol == [k \in 1..(Len(t) - i) |-> t[i + k]]
               IN  CASE exchange = <<"S", "S", "E">> -> o = <<"s", "h", ".">> \o symbol
                     [] exchange = <<"S", "Z", "S", "E">> -> o = <<"s", "z", ".">> \o symbol
                     [] OTHER -> o = t

\* C10: on every input internal_to_bs_code returns what the reference gives:
\* split at the first colon, "SSE" gives "sh." + symbol, "SZSE" gives
\* "sz." + symbol (the symbol keeps later colons), anything else and any
\* ticker without a colon is returned unchanged.
ToVendorMatchesReference ==
    \A i \in 1..Len(chain) :
        chain[i].f = "internal_to_bs_code" => ToVendorReference(chain[i].in, chain[i].out)

\* internal_to_bs_code has translated a ticker whose symbol holds a second colon
ToVendorKeptLaterColon ==
    \E i \in 1..Len(chain) :
        /\ chain[i].f = "internal_to_bs_code"
        /\ StartsWith(chain[i].in, <<"S", "Z", "S", "E", ":">>)
        /\ HasChar(SliceFrom(chain[i].in, 5), ":")
        /\ chain[i].out = <<"s", "z", ".">> \o SliceFrom(chain[i].in, 5)

(***************************************************************************)
(* Properties of the tool handlers and of the process                      *)
(***************************************************************************)
Invoked == op # "none"

IsErrorResult(r) ==
    /\ r.shape \in {"list", "object"}
    /\ Len(r.items) = 1
    /\ DOMAIN r.items[1] = {"error"}

IsErrorList(r) == r.shape = "list" /\ IsErrorResult(r)

IsRecords(r) ==
    /\ r.shape \in {"list", "object"}
    /\ r.items # <<>>
    /\ \A i \in 1..Len(r.items) : "error" \notin DOMAIN r.items[i]

ErrorText(r) == r.items[1].error

Fragments(text) == { text[i] : i \in 1..Len(text) }

TemplateOps ==
    { "get_stock_basic", "get_daily_price", "get_trade_dates", "get_dividend_data",
      "get_stock_industry", "get_index_data", "get_macro_data", "get_index_constituents",
      "get_adjust_factor", "get_performance_express_report", "get_forecast_report" }

ListOps == TemplateOps \cup { "search_stocks", "get_all_stocks_daily_price" }

NotFoundTexts ==
    { <<"stock information not found">>, <<"price data not found">>, <<"stock data not found">>,
      <<"trade date data not found">>, <<"dividend data not found">>,
      <<"industry data not found">>, <<"index data not found">>, <<"macro data not found">>,
      <<"constituent data not found">>, <<"adjust factor data not found">>,
      <<"performance express data not found">>, <<"forecast data not found">>,
      <<"stock list not found">>, <<"daily K-line data not found">> }

\* the cursor of answer a is exhausted without raising
DrainsQuietly(a) == a.fault \in {"none", "status_flips"}

\* C1: whatever the vendor answers and whatever the parameters, a handler
\* returns a non-empty sequence of records or a single record whose one field
\* is "error"; no handler returns an empty list.
ResultEnvelope ==
    Invoked => IsErrorResult(ret) \/ IsRecords(ret)

\* C2: when the (first) vendor query of a list-returning handler succeeds with
\* status "0" and its cursor yields no row, the handler returns exactly one
\* record, whose only field is "error" and holds the handler's not-found
\* message, and issues no further query.
ZeroRowsGiveNotFound ==
    (/\ op \in ListOps
     /\ calls # <<>>
     /\ vend[1].call = "returns" /\ vend[1].error_code = "0"
     /\ vend[1].rows = <<>> /\ DrainsQuietly(vend[1]))
    => /\ IsErrorList(ret)
       /\ ErrorText(ret) \in NotFoundTexts
       /\ Len(calls) = 1

\* the bulk operation has answered an empty listing with its not-found error
EmptyListingSeen ==
    /\ op = "get_all_stocks_daily_price"
    /\ vend[1].call = "returns" /\ vend[1].error_code = "0" /\ vend[1].rows = <<>>
    /\ ret = ListOf(<<ErrorRecord(<<"stock list not found">>)>>)

\* a vendor query that was issued and reported a status other than "0"
FailedQueries ==
    { i \in 1..Len(calls) : vend[i].call = "returns" /\ vend[i].error_code # "0" }

\* C3 as stated: whenever any vendor query a handler issues reports a status
\* other than "0", the handler stops there and returns the error result, whose
\* message contains the vendor's message.
EveryFailedQueryStops ==
    \A i \in FailedQueries :
        /\ IsErrorResult(ret)
        /\ vend[i].error_msg \in Fragments(ErrorText(ret))
        /\ Len(calls) = i

\* C3 amended: when the first vendor query of a handler other than
\* get_financial_data (for the bulk operation: the listing query) reports a
\* status other than "0", the handler issues no further query and returns the
\* error result, whose message contains the vendor's message.
FirstFailedQueryStops ==
    (op # "get_financial_data" /\ 1 \in FailedQueries)
    => /\ IsErrorResult(ret)
       /\ vend[1].error_msg \in Fragments(ErrorText(ret))
       /\ Len(calls) = 1

\* get_daily_price has reported a vendor failure, although the answer carried a row
VendorFailureReported ==
    /\ op = "get_daily_price"
    /\ vend[1].call = "returns" /\ vend[1].error_code = "10001" /\ vend[1].rows # <<>>
    /\ ret = ListOf(<<ErrorRecord(<<"query failed: ", vend[1].error_msg>>)>>)

(***************************************************************************)
(* Exceptions.  Which exception an invocation meets, read off the vendor's *)
(* answers: a call that raises, a cursor that raises, a row that is too    *)
(* short for the handler's columns or holds text where a number is parsed. *)
(***************************************************************************)
NumericOps ==
    { "get_daily_price", "get_trade_dates", "get_dividend_data", "get_index_data",
      "get_macro_data", "get_index_constituents", "get_adjust_factor",
      "get_performance_express_report", "get_forecast_report" }

BadRow(o, row) ==
    \/ row = <<SH6>>
    \/ (o \in NumericOps /\ \E i \in 1..Len(row) : row[i] = TBAD)
    \/ (o = "get_trade_dates" /\ Len(row) = 2 /\ row[2] \in {EMPTY, T127})

\* the exception texts the first vendor answer can lead to, {} when it leads to none
FirstAnswerRaises ==
    IF calls = <<>> THEN {}
    ELSE IF vend[1].call = "raises" THEN {CallError}
    ELSE IF vend[1].error_code # "0" THEN {}
    ELSE IF op = "get_all_stocks_daily_price" /\ \E i \in 1..Len(vend[1].rows) : vend[1].rows[i] = <<>>
         THEN {IndexError}
    ELSE IF vend[1].fault = "next_raises" THEN {NextError}
    ELSE IF vend[1].fault = "row_raises" THEN {RowError}
    ELSE IF vend[1].rows = <<>> THEN {}
    ELSE IF op \in TemplateOps /\ \E i \in 1..Len(vend[1].rows) : BadRow(op, vend[1].rows[i])
         THEN {IndexError, FloatError, IntError}
    ELSE IF op = "get_real_time_price" /\ BadRow("get_daily_price", vend[1].rows[Len(vend[1].rows)])
         THEN {IndexError, FloatError}
    ELSE IF op = "search_stocks" /\ \A i \in 1..Len(vend[1].fields) : vend[1].fields[i] # "code_name"
         THEN {KeyError}
    ELSE {}

\* the same for the five sub-queries of get_financial_data
SubQueryRaises ==
    IF op # "get_financial_data" THEN {}
    ELSE IF \E i \in 1..5 : vend[i].call = "raises" THEN {CallError}
    ELSE { NextError : i \in { j \in 1..5 : vend[j].error_code = "0" /\ vend[j].fault = "next_raises" } }

\* the per-symbol queries of the bulk operation that raised
SymbolQueryRaises ==
    IF op # "get_all_stocks_daily_price" THEN {}
    ELSE { CallError : i \in { j \in 2..Len(calls) : vend[j].call = "raises" } }

CarriesOneOf(texts) ==
    /\ IsErrorResult(ret)
    /\ Len(ErrorText(ret)) = 1
    /\ ErrorText(ret)[1] \in texts

\* C4 as stated: an exception raised at any step of any handler is caught at
\* the handler's boundary and returned as the error result carrying its text,
\* and no invocation ends by raising.
EveryExceptionReturned ==
    /\ raised = FALSE
    /\ (op # "get_financial_data" /\ FirstAnswerRaises # {}) => CarriesOneOf(FirstAnswerRaises)
    /\ SubQueryRaises # {} => CarriesOneOf(SubQueryRaises)
    /\ SymbolQueryRaises # {} => CarriesOneOf(SymbolQueryRaises)

\* C4 amended: no invocation ends by raising; an exception raised at any step
\* other than the per-symbol loop of get_all_stocks_daily_price is returned as
\* the error result carrying its text (an exception inside that loop is
\* swallowed and the symbol skipped).
BoundaryExceptionReturned ==
    /\ raised = FALSE
    /\ (op # "get_financial_data" /\ FirstAnswerRaises # {}) => CarriesOneOf(FirstAnswerRaises)
    /\ SubQueryRaises # {} => CarriesOneOf(SubQueryRaises)

\* get_daily_price has met text where a number was expected and returned the error
CoercionErrorReturned ==
    /\ op = "get_daily_price"
    /\ vend[1].call = "returns" /\ vend[1].error_code = "0" /\ DrainsQuietly(vend[1])
    /\ Len(vend[1].rows) = 2
    /\ vend[1].rows[1] = FilledRow(9, 1, SH6, T127)
    /\ vend[1].rows[2] = FilledRow(9, 1, SH6, TBAD)
    /\ ret = ListOf(<<ErrorRecord(<<FloatError>>)>>)
    /\ raised = FALSE

(***************************************************************************)
(* Bulk daily price                                                        *)
(***************************************************************************)
\* the price query answered by a fails: a status other than "0" or an exception
SymbolFails(a) ==
    \/ a.call = "raises"
    \/ a.error_code # "0"
    \/ a.fault \in {"next_raises", "row_raises"}
    \/ (a.rows # <<>> /\ BadRow("get_daily_price", a.rows[1]))

\* the price query answered by a succeeds with a row
SymbolSucceeds(a) == ~SymbolFails(a) /\ a.rows # <<>>

\* the length of a list of n symbols cut to limit
CutLength(n, limit) ==
    IF limit >= n THEN n
    ELSE IF limit >= 0 THEN limit
    ELSE IF n + limit > 0 THEN n + limit ELSE 0

ListingSucceeded ==
    /\ op = "get_all_stocks_daily_price"
    /\ vend[1].call = "returns" /\ vend[1].error_code = "0" /\ DrainsQuietly(vend[1])
    /\ vend[1].rows # <<>>
    /\ \A i \in 1..Len(vend[1].rows) : vend[1].rows[i] # <<>>

\* positions in vend of the symbols whose query succeeded
Succeeded == { j \in 2..Len(vend) : SymbolSucceeds(vend[j]) }

\* C5: once the listing is cut to the limit, if every listed symbol's price
\* query either fails (status other than "0", or an exception) or succeeds with
\* a row, the loop queries every listed symbol, the result holds exactly the
\* records of the symbols that succeeded, in listing order and with no error
\* record, and the not-found error is returned exactly when none succeeded.
BulkFailureIsolation ==
    (/\ ListingSucceeded
     /\ \A j \in 2..Len(vend) : SymbolFails(vend[j]) \/ SymbolSucceeds(vend[j]))
    => /\ Len(vend) = 1 + CutLength(Len(vend[1].rows), args.limit)
       /\ calls = [j \in 1..Len(vend) |->
                     IF j = 1 THEN "query_all_stock" ELSE "query_history_k_data_plus"]
       /\ IF Succeeded = {}
          THEN ret = ListOf(<<ErrorRecord(<<"daily K-line data not found">>)>>)
          ELSE /\ ret.shape = "list"
               /\ IsRecords(ret)
               /\ Len(ret.items) = Cardinality(Succeeded)
               /\ \A j \in Succeeded :
                    LET record == ret.items[Cardinality({ i \in Succeeded : i <= j })]
                    IN  /\ record.code = vend[j].rows[1][2]
                        /\ record.code = vend[1].rows[j - 1][1]
                        /\ record.close = ParseFloat(vend[j].rows[1][6]).v

\* three symbols were queried, the second query raised, and the result holds
\* the records of the first and the third
MiddleSymbolSkipped ==
    /\ ListingSucceeded
    /\ Len(vend) = 4
    /\ vend[3].call = "raises"
    /\ SymbolSucceeds(vend[2]) /\ SymbolSucceeds(vend[4])
    /\ Len(calls) = 4
    /\ ret.shape = "list" /\ Len(ret.items) = 2
    /\ ret.items[1].code = SymbolCode(1)
    /\ ret.items[2].code = SymbolCode(3)

(***************************************************************************)
(* Financial data                                                          *)
(***************************************************************************)
FinancialKeys == <<"profitability", "operation", "growth", "balance", "cash_flow">>

\* sub-query i reports a status other than "0" or yields no row
SubQueryEmpty(i) == vend[i].error_code # "0" \/ vend[i].rows = <<>>

\* C6: when each of the five sub-queries returns and either reports a status
\* other than "0", yields no row, or yields rows, the object returned has no
\* "error" field, the sub-object of every sub-query without rows is None, every
\* other sub-object holds the first row of its query under the query's field
\* names, and all five queries were issued.
FinancialPartialFailure ==
    (/\ op = "get_financial_data"
     /\ \A i \in 1..5 : /\ vend[i].call = "returns"
                        /\ (vend[i].error_code # "0" \/ DrainsQuietly(vend[i])))
    => /\ ret.shape = "object"
       /\ IsRecords(ret)
       /\ calls = <<"query_profit_data", "query_operation_data", "query_growth_data",
                    "query_balance_data", "query_cash_flow_data">>
       /\ \A i \in 1..5 :
            LET sub == ret.items[1][FinancialKeys[i]]
            IN  IF SubQueryEmpty(i) THEN sub = None
                ELSE /\ DOMAIN sub = { vend[i].fields[k] : k \in 1..Len(vend[i].fields) }
                     /\ \A k \in 1..Len(vend[i].fields) :
                            sub[vend[i].fields[k]] = vend[i].rows[1][k]

\* profitability failed, operation had no row, the other three are populated
ProfitabilityMissing ==
    /\ op = "get_financial_data"
    /\ vend[1].call = "returns" /\ vend[1].error_code # "0"
    /\ vend[2].call = "returns" /\ vend[2].error_code = "0" /\ vend[2].rows = <<>>
    /\ \A i \in 3..5 : vend[i].call = "returns" /\ vend[i].error_code = "0"
                       /\ Len(vend[i].rows) = 2 /\ DrainsQuietly(vend[i])
    /\ IsRecords(ret)
    /\ ret.items[1].profitability = None
    /\ ret.items[1].operation = None
    /\ ret.items[1].growth # None
    /\ ret.items[1].balance # None
    /\ ret.items[1].cash_flow.value = T127

(***************************************************************************)
(* The default quarter                                                     *)
(***************************************************************************)
QuarterOfMonth(m) ==
    CASE m \in {1, 2, 3} -> 1 [] m \in {4, 5, 6} -> 2 [] m \in {7, 8, 9} -> 3 [] m \in {10, 11, 12} -> 4

\* the year and quarter resolved on day now when the first lastEarlyDay days of
\* a quarter's first month step back one quarter
ExpectedQuarter(now, lastEarlyDay) ==
    IF now.month \in {1, 4, 7, 10} /\ now.day \in 1..lastEarlyDay
    THEN IF QuarterOfMonth(now.month) = 1
         THEN [year |-> now.year - 1, quarter |-> 4]
         ELSE [year |-> now.year, quarter |-> QuarterOfMonth(now.month) - 1]
    ELSE [year |-> now.year, quarter |-> QuarterOfMonth(now.month)]

DefaultsResolved ==
    /\ op = "get_financial_data"
    /\ IsRecords(ret)
    /\ (args.year = None \/ args.quarter = None)

\* C7 as stated: with year or quarter unspecified the resolved pair is the
\* current year and quarter, except on days 1 through 15 of January, April,
\* July and October, when it is the previous quarter (quarter 4 of the
\* previous year in January).
QuarterDefaultThroughDay15 ==
    DefaultsResolved =>
        /\ ret.items[1].year = [int |-> ExpectedQuarter(args.now, 15).year]
        /\ ret.items[1].quarter = [int |-> ExpectedQuarter(args.now, 15).quarter]

\* C7 amended: the same with days 1 through 14; on the 15th and later the
\* current quarter is used.
QuarterDefaultThroughDay14 ==
    DefaultsResolved =>
        /\ ret.items[1].year = [int |-> ExpectedQuarter(args.now, 14).year]
        /\ ret.items[1].quarter = [int |-> ExpectedQuarter(args.now, 14).quarter]

\* on 14 January the fourth quarter of the previous year was resolved
SteppedBackOverNewYear ==
    /\ DefaultsResolved
    /\ args.now = Day(2025, 1, 14)
    /\ ret.items[1].year = [int |-> 2024]
    /\ ret.items[1].quarter = [int |-> 4]

(***************************************************************************)
(* The session                                                             *)
(***************************************************************************)
\* C8: the session is established at most once and before any handler runs
\* (after a failed login nothing runs), bs.logout() is called at most once and
\* only after the serving loop has ended, a process that served ends having
\* logged in once and called logout once, and it never ends with an exception
\* from the logout.
SessionLifecycle ==
    /\ logins <= 1 /\ logouts <= 1
    /\ (session # "none") = (logins = 1)
    /\ Invoked => (pc = "serving" /\ session = "open" /\ logins = 1 /\ logouts = 0)
    /\ pc \in {"ready", "serving", "finally"} => (session = "open" /\ logouts = 0)
    /\ pc = "aborted" =>
            (session = "none" /\ logins = 0 /\ logouts = 0 /\ ~Invoked /\ exitCause = "login")
    /\ logouts = 1 => pc = "exited"
    /\ pc = "exited" => (logins = 1 /\ logouts = 1 /\ exitCause \in {"normal", "serve_error"})

\* the logout raised, and the process still ended normally
LogoutFailureSwallowed ==
    /\ pc = "exited"
    /\ logouts = 1
    /\ session = "open"
    /\ exitCause = "normal"

(***************************************************************************)
(* The cursor                                                              *)
(***************************************************************************)
\* the first query of a handler that maps every drained row reported success
\* and the handler returned records
ReportedSuccess ==
    /\ op \in TemplateOps
    /\ calls # <<>>
    /\ vend[1].call = "returns" /\ vend[1].error_code = "0"
    /\ IsRecords(ret)

\* C11: when the vendor query reports success, a list-returning handler
\* returns exactly one record per row of the vendor's response, in cursor
\* order (for daily price: record i is built from row i); no row of the
\* response is missing from a list returned as a success.
DrainCompleteness ==
    ReportedSuccess =>
        /\ Len(ret.items) = Len(Response(vend[1]))
        /\ op = "get_daily_price" =>
                \A i \in 1..Len(ret.items) :
                    /\ BuildRecord(DailyPriceFields, Response(vend[1])[i], None).t = "ret"
                    /\ ret.items[i] = BuildRecord(DailyPriceFields, Response(vend[1])[i], None).v

(***************************************************************************)
(* Isolation of the process from its handlers                              *)
(***************************************************************************)
\* what the handler named o gives for arguments a and vendor answers v
Handle(o, a, v) ==
    CASE o = "get_stock_basic" -> get_stock_basic(v[1])
      [] o = "get_daily_price" -> get_daily_price(v[1])
      [] o = "get_real_time_price" -> get_real_time_price(v[1])
      [] o = "search_stocks" -> search_stocks(a.keyword, a.limit, v[1])
      [] o = "get_financial_data" -> get_financial_data(a.bs_code, a.year, a.quarter, a.now, v)
      [] o = "get_trade_dates" -> get_trade_dates(v[1])
      [] o = "get_dividend_data" -> get_dividend_data(v[1])
      [] o = "get_stock_industry" -> get_stock_industry(v[1])
      [] o = "get_index_data" -> get_index_data(v[1])
      [] o = "get_macro_data" -> get_macro_data(a.data_type, v[1])
      [] o = "get_index_constituents" -> get_index_constituents(a.index_code, v[1])
      [] o = "get_adjust_factor" -> get_adjust_factor(v[1])
      [] o = "get_performance_express_report" -> get_performance_express_report(v[1])
      [] o = "get_forecast_report" -> get_forecast_report(v[1])
      [] o = "get_all_stocks_daily_price" ->
            get_all_stocks_daily_price(a.limit, v[1], SubSeq(v, 2, Len(v)))

\* the result is the one the handler gives for these arguments and these
\* vendor answers, whatever was invoked before
ResultFromInputsOnly ==
    /\ raised = (Handle(op, args, vend).t = "exc")
    /\ ~raised => ret = Handle(op, args, vend).v

\* C12: whatever was invoked before and however it ended, while a handler's
\* result is pending the session is open and the serving loop is running; a
\* step in which a handler runs or its result is sent leaves the session, the
\* login and logout counts and the position of the process unchanged; and the
\* result depends on the invocation's own arguments and vendor answers only.
ProcessFaultIsolation ==
    /\ [](Invoked => /\ pc = "serving" /\ session = "open"
                      /\ logins = 1 /\ logouts = 0 /\ exitCause = "none"
                      /\ ResultFromInputsOnly)
    /\ [][(Invoked \/ Invoked') => UNCHANGED procVars]_vars

\* right after an invocation that ended in an error result, another one has
\* returned records, the session open and the server still serving
ServedAfterError ==
    /\ prior = "error"
    /\ Invoked /\ IsRecords(ret)
    /\ pc = "serving" /\ session = "open" /\ logins = 1 /\ logouts = 0

(***************************************************************************)
(* The latest price                                                        *)
(***************************************************************************)
\* the query of the latest-price handler reported success and its cursor
\* delivered at least one row before it ended without raising
SnapshotDrained ==
    /\ op = "get_real_time_price"
    /\ vend[1].call = "returns" /\ vend[1].error_code = "0"
    /\ DrainsQuietly(vend[1])
    /\ vend[1].rows # <<>>

\* the last row the cursor delivered
LatestRow == vend[1].rows[Len(vend[1].rows)]

\* the record r is the one the row gives, and its price is its close
SnapshotOf(r, row) ==
    /\ DOMAIN r = { "date", "code", "price", "open", "high", "low", "close", "volume",
                    "amount", "turnover", "internal_ticker" }
    /\ r.date = row[1]
    /\ r.code = row[2]
    /\ r.close = (IF row[6] = <<>> THEN None ELSE ParseFloat(row[6]).v)
    /\ r.open = (IF row[3] = <<>> THEN None ELSE ParseFloat(row[3]).v)
    /\ r.price = r.close
    /\ r.internal_ticker = bs_code_to_internal(row[2])

\* the result is the one the handler gives when the vendor's response holds
\* the last row alone
EarlierRowsIgnored ==
    Ret(ret) = get_real_time_price([vend[1] EXCEPT !.rows = <<LatestRow>>])

\* C13 as stated: when the query over the window succeeds with n >= 1 rows,
\* the handler returns a single record, not a list, built from the last row
\* drained; rows 1..n-1 contribute nothing; the record's price equals its
\* close.
LatestSnapshotAlways ==
    SnapshotDrained =>
        /\ ret.shape = "object"
        /\ IsRecords(ret)
        /\ SnapshotOf(ret.items[1], LatestRow)
        /\ EarlierRowsIgnored

\* the cells of the row convert without raising
Converts(row) == BuildRecord(RealTimeFields, row, None).t = "ret"

\* C13 amended: when the query over the window succeeds with n >= 1 rows and
\* the cells of the last row drained convert without raising, the handler
\* returns a single record, not a list, built from that row, with price equal
\* to close; rows 1..n-1 contribute nothing, whether the last row converts or
\* not (then the result is the error result of the conversion).
LatestSnapshotWhenConverts ==
    SnapshotDrained =>
        /\ ret.shape = "object"
        /\ EarlierRowsIgnored
        /\ Converts(LatestRow) =>
                /\ IsRecords(ret)
                /\ SnapshotOf(ret.items[1], LatestRow)
        /\ ~Converts(LatestRow) => IsErrorResult(ret)

\* two rows were drained, the first of which does not convert, and the record
\* returned is the second row's, its price and close the same number
SnapshotOfSecondRow ==
    /\ SnapshotDrained
    /\ Len(vend[1].rows) = 2
    /\ ~Converts(vend[1].rows[1])
    /\ IsRecords(ret)
    /\ ret.items[1].code = vend[1].rows[2][2]
    /\ ret.items[1].price = ret.items[1].close
    /\ ret.items[1].close # None

====
